---- MODULE Spec2Model ----
(***************************************************************************)
(* ACPI / SMBIOS dumper: the parsers of parsers.py and the command drivers *)
(* of cli_main.py and gui_main.py that call them.                          *)
(*                                                                         *)
(* A Python bytes object is a sequence of naturals 0..255; Python index i  *)
(* is position i+1 of the sequence.  A Python str is the sequence of its   *)
(* code points.  None / a value is the empty / one-element sequence.       *)
(***************************************************************************)
EXTENDS Integers, Sequences, FiniteSets, TLC

VARIABLES data, pc, current_off, structure_count, out, strings, index, result

vars == <<data, pc, current_off, structure_count, out, strings, index, result>>

(***************************************************************************)
(* Bounds of the model.                                                    *)
(***************************************************************************)
\* longest free-form tail of record-table bytes that is enumerated
MaxTail == 5
\* most well-formed records put in front of the enumerated tail
MaxPrefix == 1
\* most strings in a pool handed to get_string_by_index on its own
MaxPool == 2

(***************************************************************************)
(* Python primitives.                                                      *)
(***************************************************************************)
Min(a, b) == IF a <= b THEN a ELSE b

\* data[i] for an index the caller knows to be in range
At(d, i) == d[i + 1]

\* data[a:b] with 0 <= a: the bounds are clamped to the buffer, never an error
Slice(d, a, b) == SubSeq(d, Min(a, Len(d)) + 1, Min(b, Len(d)))

RECURSIVE Dec(_)
\* str(n) / f"{n}" of a non-negative int: its decimal digits
Dec(n) == IF n < 10 THEN <<48 + n>> ELSE Dec(n \div 10) \o <<48 + (n % 10)>>

\* one hexadecimal digit, upper case (format spec X)
HexDigitUpper(v) == IF v < 10 THEN 48 + v ELSE 55 + v

\* one hexadecimal digit, lower case (bytes.hex())
HexDigitLower(v) == IF v < 10 THEN 48 + v ELSE 87 + v

\* f"{b:02X}" of a byte
Hex2Upper(b) == <<HexDigitUpper(b \div 16), HexDigitUpper(b % 16)>>

RECURSIVE BytesHex(_)
\* bytes.hex()
BytesHex(b) ==
  IF b = <<>> THEN <<>>
  ELSE <<HexDigitLower(Head(b) \div 16), HexDigitLower(Head(b) % 16)>> \o BytesHex(Tail(b))

RECURSIVE BytesHexUpper(_)
\* bytes.hex().upper()
BytesHexUpper(b) ==
  IF b = <<>> THEN <<>> ELSE Hex2Upper(Head(b)) \o BytesHexUpper(Tail(b))

\* struct.unpack('<H', b)[0] of exactly two bytes
U16LE(b) == b[1] + 256 * b[2]

\* a 32-bit unsigned number hi * 65536 + lo, kept as its two 16-bit halves
\* (TLC's integers are 32-bit signed)
U32(hi, lo) == [hi |-> hi, lo |-> lo]

\* four bytes read most significant byte first
U32LE_BigEndian(b) == U32(256 * b[1] + b[2], 256 * b[3] + b[4])

\* struct.unpack('<I', b)[0] of exactly four bytes
U32LE(b) == U32(b[3] + 256 * b[4], b[1] + 256 * b[2])

\* the decoding with every byte of 0x80 and above dropped
DecodeUtf8Ignore_DropsNonAscii(b) == SelectSeq(b, LAMBDA x : x < 128)

RECURSIVE DecodeUtf8Ignore(_)
\* bytes.decode('utf-8', errors='ignore') for bytes outside 0xE0..0xF4 (the
\* three- and four-byte lead bytes, which no modelled buffer holds): an ASCII
\* byte is its own code point, a two-byte sequence is one code point, and a
\* byte that cannot start or continue a sequence is dropped.
DecodeUtf8Ignore(b) ==
  IF b = <<>> THEN <<>>
  ELSE LET h == Head(b) IN
    IF h < 128 THEN <<h>> \o DecodeUtf8Ignore(Tail(b))
    ELSE IF h >= 194 /\ h <= 223 /\ Len(b) >= 2 /\ b[2] >= 128 /\ b[2] <= 191
      THEN <<(h - 192) * 64 + (b[2] - 128)>> \o DecodeUtf8Ignore(Tail(Tail(b)))
    ELSE DecodeUtf8Ignore(Tail(b))

\* bytes.decode('ascii', errors='ignore'): bytes >= 0x80 are dropped
DecodeAsciiIgnore(b) == SelectSeq(b, LAMBDA x : x < 128)

RECURSIVE LStripNul(_)
LStripNul(s) == IF s # <<>> /\ Head(s) = 0 THEN LStripNul(Tail(s)) ELSE s

RECURSIVE RStripNul(_)
RStripNul(s) ==
  IF s # <<>> /\ s[Len(s)] = 0 THEN RStripNul(SubSeq(s, 1, Len(s) - 1)) ELSE s

\* str.strip('\x00')
StripNul(s) == RStripNul(LStripNul(s))

(***************************************************************************)
(* String literals of parsers.py, as code points.                          *)
(***************************************************************************)
\* "None"
STR_None == <<78, 111, 110, 101>>
\* "<Bad String Index: "
STR_BadIndexOpen ==
  <<60, 66, 97, 100, 32, 83, 116, 114, 105, 110, 103, 32, 73, 110, 100, 101, 120, 58, 32>>
\* ">"
STR_BadIndexClose == <<62>>
\* " KB"
STR_KB == <<32, 75, 66>>
\* " MB"
STR_MB == <<32, 77, 66>>
\* " MT/s"
STR_MTs == <<32, 77, 84, 47, 115>>
\* "Unknown"
STR_Unknown == <<85, 110, 107, 110, 111, 119, 110>>
\* "Unknown / Extended"
STR_UnknownExtended ==
  <<85, 110, 107, 110, 111, 119, 110, 32, 47, 32, 69, 120, 116, 101, 110, 100, 101, 100>>
\* "No Module Installed"
STR_NoModule ==
  <<78, 111, 32, 77, 111, 100, 117, 108, 101, 32, 73, 110, 115, 116, 97, 108, 108, 101, 100>>
\* " bits"
STR_bits == <<32, 98, 105, 116, 115>>
\* "0x"
STR_0x == <<48, 120>>
\* str(IndexError) of an out-of-range bytes subscript: "index out of range"
MSG_IndexError ==
  <<105, 110, 100, 101, 120, 32, 111, 117, 116, 32, 111, 102, 32, 114, 97, 110, 103, 101>>
\* str(struct.error) of unpack('<H', ...) on a short slice:
\* "unpack requires a buffer of 2 bytes"
MSG_StructError2 ==
  <<117, 110, 112, 97, 99, 107, 32, 114, 101, 113, 117, 105, 114, 101, 115, 32, 97, 32,
    98, 117, 102, 102, 101, 114, 32, 111, 102, 32, 50, 32, 98, 121, 116, 101, 115>>
\* "Data too short for ACPI header"
MSG_TooShort ==
  <<68, 97, 116, 97, 32, 116, 111, 111, 32, 115, 104, 111, 114, 116, 32, 102, 111, 114,
    32, 65, 67, 80, 73, 32, 104, 101, 97, 100, 101, 114>>

(***************************************************************************)
(* parsers.py: get_string_by_index.                                        *)
(***************************************************************************)
\* strings[i] of a Python list: a negative subscript counts from the end, a
\* subscript outside -len..len-1 raises IndexError.  subscripts are the
\* subscripts handed to the list, as written.
ListGet(lst, i) ==
  IF i >= 0 /\ i < Len(lst)
    THEN [raised |-> FALSE, value |-> lst[i + 1], subscripts |-> {i}]
  ELSE IF i < 0 /\ i >= -Len(lst)
    THEN [raised |-> FALSE, value |-> lst[Len(lst) + i + 1], subscripts |-> {i}]
  ELSE [raised |-> TRUE, value |-> <<>>, subscripts |-> {i}]

\* the guard of the sentinel: index == 0
IsNoString(idx) == idx = 0

\* the guard of the lookup with its upper bound one too far
IsPoolIndex_OneTooFar(lst, idx) == 0 < idx /\ idx <= Len(lst) + 1

\* the guard of the lookup: 0 < index <= len(strings)
IsPoolIndex(lst, idx) == 0 < idx /\ idx <= Len(lst)

get_string_by_index(lst, idx) ==
  IF IsNoString(idx)
    THEN [raised |-> FALSE, value |-> STR_None, subscripts |-> {}]
  ELSE IF IsPoolIndex(lst, idx)
    THEN ListGet(lst, idx - 1)
  ELSE [raised |-> FALSE,
        value |-> STR_BadIndexOpen \o Dec(idx) \o STR_BadIndexClose,
        subscripts |-> {}]

(***************************************************************************)
(* parsers.py: parse_raw_smbios_data_header, parse_smbios_structure,       *)
(* get_smbios_strings.                                                     *)
(***************************************************************************)
\* size of the Windows RawSMBIOSData header
RawHeaderSize == 8

\* size of an SMBIOS structure header
StructHeaderSize == 4

\* (header, data_offset): the header as None or one value
parse_raw_smbios_data_header(d) ==
  IF Len(d) < RawHeaderSize
    THEN [header |-> <<>>, offset |-> 0]
  ELSE [header |-> <<[used_20_calling_method |-> At(d, 0),
                      major_version |-> At(d, 1),
                      minor_version |-> At(d, 2),
                      dmi_revision |-> At(d, 3),
                      length |-> U32LE(Slice(d, 4, 8))]>>,
        offset |-> RawHeaderSize]

RECURSIVE ScanDoubleNull_ReturnsCurrent(_, _)
\* the scan with its fall-through returning where the scan stopped instead of
\* len(data)
ScanDoubleNull_ReturnsCurrent(d, current) ==
  IF current + 1 < Len(d)
    THEN IF At(d, current) = 0 /\ At(d, current + 1) = 0
           THEN current + 2
           ELSE ScanDoubleNull_ReturnsCurrent(d, current + 1)
  ELSE current

RECURSIVE ScanDoubleNull_SingleNull(_, _)
\* the scan made to stop at the first zero byte, whatever follows it
ScanDoubleNull_SingleNull(d, current) ==
  IF current + 1 < Len(d)
    THEN IF At(d, current) = 0
           THEN current + 2
           ELSE ScanDoubleNull_SingleNull(d, current + 1)
  ELSE Len(d)

RECURSIVE ScanReads(_, _)
\* the buffer indexes the while loop of parse_smbios_structure subscripts,
\* from `current`: data[current] on every turn, data[current+1] when the
\* first operand of `and` is true
ScanReads(d, current) ==
  IF current + 1 < Len(d)
    THEN {current}
         \cup (IF At(d, current) = 0 THEN {current + 1} ELSE {})
         \cup (IF At(d, current) = 0 /\ At(d, current + 1) = 0
                 THEN {}
                 ELSE ScanReads(d, current + 1))
  ELSE {}

RECURSIVE ScanDoubleNull(_, _)
\* the while loop of parse_smbios_structure, from `current`: the offset after
\* the first pair of zero bytes, or len(data).  No position is read unless
\* current + 1 < len(data).
ScanDoubleNull(d, current) ==
  IF current + 1 < Len(d)
    THEN IF At(d, current) = 0 /\ At(d, current + 1) = 0
           THEN current + 2
           ELSE ScanDoubleNull(d, current + 1)
  ELSE Len(d)

\* smallest declared length of a valid structure
MinStructLength == 4

\* the length check left out
ValidLength_Unchecked(length) == length >= 0

\* Valid SMBIOS structure must have length >= 4
ValidLength(length) == length >= MinStructLength

\* the parser made to treat a structure whose formatted section outruns the
\* buffer as the end of the table
parse_smbios_structure_RejectsTruncated(d, offset) ==
  IF offset + StructHeaderSize > Len(d)
    THEN [header |-> <<>>, next_offset |-> <<>>]
  ELSE LET type_ == At(d, offset)
           length == At(d, offset + 1)
           handle == U16LE(Slice(d, offset + 2, offset + 4))
       IN IF ~ValidLength(length) \/ offset + length > Len(d)
            THEN [header |-> <<>>, next_offset |-> <<>>]
          ELSE [header |-> <<[type |-> type_, length |-> length, handle |-> handle]>>,
                next_offset |-> <<ScanDoubleNull(d, offset + length)>>]

\* (header, next_offset), both None (empty) at the end of the table
parse_smbios_structure(d, offset) ==
  IF offset + StructHeaderSize > Len(d)
    THEN [header |-> <<>>, next_offset |-> <<>>]
  ELSE LET type_ == At(d, offset)
           length == At(d, offset + 1)
           handle == U16LE(Slice(d, offset + 2, offset + 4))
       IN IF ~ValidLength(length)
            THEN [header |-> <<>>, next_offset |-> <<>>]
          ELSE [header |-> <<[type |-> type_, length |-> length, handle |-> handle]>>,
                next_offset |-> <<ScanDoubleNull(d, offset + length)>>]

RECURSIVE IndexOfNul(_, _)
\* data.index(b'\x00', start): the first zero byte at or after start, or
\* len(data) where Python raises ValueError (none found)
IndexOfNul(d, start) ==
  IF start >= Len(d) THEN Len(d)
  ELSE IF At(d, start) = 0 THEN start
  ELSE IndexOfNul(d, start + 1)

\* where the string area of a record starts
StrStart(offset, length) == offset + length

RECURSIVE StringsFrom_SkipsEmpty(_, _)
\* the loop made to step over a zero byte where a string should start, and
\* to go on after a string whatever follows its terminator
StringsFrom_SkipsEmpty(d, current_idx) ==
  IF ~(current_idx < Len(d)) THEN <<>>
  ELSE LET null_idx == IndexOfNul(d, current_idx) IN
    IF null_idx = Len(d) THEN <<>>
    ELSE IF null_idx = current_idx THEN StringsFrom_SkipsEmpty(d, current_idx + 1)
    ELSE <<DecodeUtf8Ignore(Slice(d, current_idx, null_idx))>>
           \o StringsFrom_SkipsEmpty(d, null_idx + 1)

RECURSIVE StringsFrom(_, _)
\* the while loop of get_smbios_strings, from current_idx
StringsFrom(d, current_idx) ==
  IF ~(current_idx < Len(d)) THEN <<>>
  ELSE LET null_idx == IndexOfNul(d, current_idx) IN
    IF null_idx = Len(d) THEN <<>>
    ELSE IF null_idx = current_idx THEN <<>>
    ELSE LET s == DecodeUtf8Ignore(Slice(d, current_idx, null_idx))
             nxt == null_idx + 1
         IN IF nxt < Len(d) /\ At(d, nxt) = 0
              THEN <<s>>
              ELSE <<s>> \o StringsFrom(d, nxt)

get_smbios_strings(d, offset, length) == StringsFrom(d, StrStart(offset, length))

(***************************************************************************)
(* parsers.py: the type decoders.  The body of a decoder's try block is    *)
(* run as Python runs it: the reads in program order up to the first one   *)
(* that raises, the appends made before it kept.  A body's outcome is      *)
(* [info, exc, msg, reads]: the entries appended, the exception that ended *)
(* it ("" for none) with its str(), and the buffer indexes subscripted or  *)
(* sliced.                                                                 *)
(***************************************************************************)
Entry(key, val) == [key |-> key, val |-> val]

\* data[i]: a byte read
B(i) == [kind |-> "B", at |-> i]

\* struct.unpack('<H', data[i:i+2]): a 16-bit read
H(i) == [kind |-> "H", at |-> i]

\* whether a read succeeds: a subscript needs its index in range, unpack
\* needs a slice of exactly two bytes
ReadOk(d, op) ==
  IF op.kind = "B" THEN op.at < Len(d) ELSE op.at + 2 <= Len(d)

\* the exception a failing read raises
ReadExc(op) == IF op.kind = "B" THEN "IndexError" ELSE "struct.error"

ReadMsg(op) == IF op.kind = "B" THEN MSG_IndexError ELSE MSG_StructError2

\* the buffer indexes a read asks for
ReadIdx(op) == IF op.kind = "B" THEN {op.at} ELSE {op.at, op.at + 1}

\* the value of a read that succeeds
ReadVal(d, op) ==
  IF op.kind = "B" THEN At(d, op.at) ELSE U16LE(Slice(d, op.at, op.at + 2))

\* the position in ops of the first read that raises, 0 if none does
FirstFail(d, ops) ==
  IF \A k \in 1..Len(ops) : ReadOk(d, ops[k]) THEN 0
  ELSE CHOOSE k \in 1..Len(ops) :
         /\ ~ReadOk(d, ops[k])
         /\ \A j \in 1..(k - 1) : ReadOk(d, ops[j])

\* the indexes asked for by the reads that ran: all of them, or those up to
\* and including the first that raised
ReadsOf(d, ops) ==
  LET f == FirstFail(d, ops)
      n == IF f = 0 THEN Len(ops) ELSE f
  IN UNION {ReadIdx(ops[k]) : k \in 1..n}

\* a body that ran to its end
Done(info, reads) == [info |-> info, exc |-> "", msg |-> <<>>, reads |-> reads]

\* a body ended by the first failing read of ops, after appending info
Raised(d, ops, info, reads) ==
  LET op == ops[FirstFail(d, ops)]
  IN [info |-> info, exc |-> ReadExc(op), msg |-> ReadMsg(op),
      reads |-> reads \cup ReadsOf(d, ops)]

\* the handler narrowed to `except IndexError`
ExceptClause_IndexErrorOnly(exc) == exc = "IndexError"

\* `except Exception`: IndexError, struct.error and ValueError all derive
\* from Exception
ExceptClause(exc) == exc \in {"IndexError", "struct.error", "ValueError"}

\* try: body / except Exception as e: info.append(("Parse Error", str(e))) /
\* return info.  raised: an exception left the decoder.
TryExcept(body) ==
  IF body.exc = ""
    THEN [raised |-> FALSE, info |-> body.info, reads |-> body.reads]
  ELSE IF ExceptClause(body.exc)
    THEN [raised |-> FALSE,
          info |-> Append(body.info, Entry("Parse Error", body.msg)),
          reads |-> body.reads]
  ELSE [raised |-> TRUE, info |-> body.info, reads |-> body.reads]

\* get_string_by_index(strings, idx) as a field value
Str(lst, idx) == get_string_by_index(lst, idx).value

\* BIOS ROM size in KB: (rom_size_enc + 1) * 64
RomSizeKb(rom_size_enc) == (rom_size_enc + 1) * 64

\* the ROM-size byte that means "see the extended ROM size"
RomSizeExtended == 255

parse_type_0(d, offset, length, lst) ==
  LET ops == <<B(offset + 4), B(offset + 5), B(offset + 8), B(offset + 9)>>
  IN TryExcept(
       IF FirstFail(d, ops) # 0 THEN Raised(d, ops, <<>>, {})
       ELSE LET vendor_idx == At(d, offset + 4)
                ver_idx == At(d, offset + 5)
                date_idx == At(d, offset + 8)
                rom_size_enc == At(d, offset + 9)
                info == <<Entry("Vendor", Str(lst, vendor_idx)),
                          Entry("Version", Str(lst, ver_idx)),
                          Entry("Release Date", Str(lst, date_idx))>>
            IN IF rom_size_enc = RomSizeExtended
                 THEN Done(info, ReadsOf(d, ops))
                 ELSE Done(Append(info, Entry("ROM Size",
                                              Dec(RomSizeKb(rom_size_enc)) \o STR_KB)),
                           ReadsOf(d, ops)))

\* str(uuid.UUID(bytes_le=b)).upper() of exactly 16 bytes: the first three
\* fields byte-swapped, 8-4-4-4-12 hexadecimal digits
UuidStrUpper(b) ==
  BytesHexUpper(<<b[4], b[3], b[2], b[1]>>) \o <<45>> \o
  BytesHexUpper(<<b[6], b[5]>>) \o <<45>> \o
  BytesHexUpper(<<b[8], b[7]>>) \o <<45>> \o
  BytesHexUpper(<<b[9], b[10]>>) \o <<45>> \o
  BytesHexUpper(SubSeq(b, 11, 16))

\* the inner try of parse_type_1: uuid.UUID raises ValueError unless it is
\* given 16 bytes, and the bare except falls back to the hexadecimal dump
UuidValue(uuid_bytes) ==
  IF Len(uuid_bytes) = 16 THEN UuidStrUpper(uuid_bytes) ELSE BytesHex(uuid_bytes)

\* the guard of the UUID field of parse_type_1: length > 0x08
HasUuid(length) == length > 8

parse_type_1(d, offset, length, lst) ==
  LET ops == <<B(offset + 4), B(offset + 5), B(offset + 6), B(offset + 7)>>
  IN TryExcept(
       IF FirstFail(d, ops) # 0 THEN Raised(d, ops, <<>>, {})
       ELSE LET man_idx == At(d, offset + 4)
                prod_idx == At(d, offset + 5)
                ver_idx == At(d, offset + 6)
                ser_idx == At(d, offset + 7)
                info == <<Entry("Manufacturer", Str(lst, man_idx)),
                          Entry("Product Name", Str(lst, prod_idx)),
                          Entry("Version", Str(lst, ver_idx)),
                          Entry("Serial Number", Str(lst, ser_idx))>>
                uuid_bytes == Slice(d, offset + 8, offset + 24)
            IN IF HasUuid(length)
                 THEN Done(Append(info, Entry("UUID", UuidValue(uuid_bytes))),
                           ReadsOf(d, ops) \cup ((offset + 8)..(offset + 23)))
                 ELSE Done(info, ReadsOf(d, ops)))

\* the guard of the asset-tag index of parse_type_2: length > 0x08
HasAssetTag(length) == length > 8

parse_type_2(d, offset, length, lst) ==
  LET ops == <<B(offset + 4), B(offset + 5), B(offset + 6), B(offset + 7)>>
              \o (IF HasAssetTag(length) THEN <<B(offset + 8)>> ELSE <<>>)
  IN TryExcept(
       IF FirstFail(d, ops) # 0 THEN Raised(d, ops, <<>>, {})
       ELSE LET man_idx == At(d, offset + 4)
                prod_idx == At(d, offset + 5)
                ver_idx == At(d, offset + 6)
                ser_idx == At(d, offset + 7)
                asset_idx == IF HasAssetTag(length) THEN At(d, offset + 8) ELSE 0
            IN Done(<<Entry("Manufacturer", Str(lst, man_idx)),
                      Entry("Product Name", Str(lst, prod_idx)),
                      Entry("Version", Str(lst, ver_idx)),
                      Entry("Serial Number", Str(lst, ser_idx)),
                      Entry("Asset Tag", Str(lst, asset_idx))>>,
                    ReadsOf(d, ops)))

parse_type_3(d, offset, length, lst) ==
  LET ops == <<B(offset + 4), B(offset + 5), B(offset + 6), B(offset + 7)>>
  IN TryExcept(
       IF FirstFail(d, ops) # 0 THEN Raised(d, ops, <<>>, {})
       ELSE LET man_idx == At(d, offset + 4)
                type_code == At(d, offset + 5)
                ver_idx == At(d, offset + 6)
                ser_idx == At(d, offset + 7)
            IN Done(<<Entry("Manufacturer", Str(lst, man_idx)),
                      Entry("Type", STR_0x \o Hex2Upper(type_code)),
                      Entry("Version", Str(lst, ver_idx)),
                      Entry("Serial Number", Str(lst, ser_idx))>>,
                    ReadsOf(d, ops)))

\* the guard of the core and thread counts of parse_type_4: length >= 0x23
HasCoreCount(length) == length >= 35

parse_type_4(d, offset, length, lst) ==
  LET ops == <<B(offset + 4), B(offset + 5), B(offset + 7), B(offset + 16)>>
      more == <<B(offset + 35), B(offset + 37)>>
  IN TryExcept(
       IF FirstFail(d, ops) # 0 THEN Raised(d, ops, <<>>, {})
       ELSE LET sock_idx == At(d, offset + 4)
                type_enum == At(d, offset + 5)
                man_idx == At(d, offset + 7)
                ver_idx == At(d, offset + 16)
                info == <<Entry("Socket Designator", Str(lst, sock_idx)),
                          Entry("Processor Type", STR_0x \o Hex2Upper(type_enum)),
                          Entry("Manufacturer", Str(lst, man_idx)),
                          Entry("Version", Str(lst, ver_idx))>>
            IN IF ~HasCoreCount(length) THEN Done(info, ReadsOf(d, ops))
               ELSE IF FirstFail(d, more) # 0
                 THEN Raised(d, more, info, ReadsOf(d, ops))
               ELSE LET core_count == At(d, offset + 35)
                        thread_count == At(d, offset + 37)
                    IN Done(info \o <<Entry("Core Count", Dec(core_count)),
                                      Entry("Thread Count", Dec(thread_count))>>,
                            ReadsOf(d, ops) \cup ReadsOf(d, more)))

\* the Size entry with the high-bit test made before the two special values
MemSizeValue_HighBitFirst(size) ==
  IF size >= 32768 THEN Dec(size - 32768) \o STR_KB
  ELSE IF size = 65535 THEN STR_UnknownExtended
  ELSE IF size = 0 THEN STR_NoModule
  ELSE Dec(size) \o STR_MB

\* the Size entry of parse_type_17
MemSizeValue(size) ==
  IF size = 65535 THEN STR_UnknownExtended
  ELSE IF size = 0 THEN STR_NoModule
  ELSE IF size >= 32768 THEN Dec(size - 32768) \o STR_KB
  ELSE Dec(size) \o STR_MB

\* the Speed entry of parse_type_17
MemSpeedValue(speed) == IF speed # 0 THEN Dec(speed) \o STR_MTs ELSE STR_Unknown

parse_type_17(d, offset, length, lst) ==
  LET ops == <<H(offset + 8), H(offset + 10), H(offset + 12), H(offset + 21),
               B(offset + 23), B(offset + 24), B(offset + 25), B(offset + 26),
               B(offset + 16), B(offset + 17)>>
  IN TryExcept(
       IF FirstFail(d, ops) # 0 THEN Raised(d, ops, <<>>, {})
       ELSE LET total_width == ReadVal(d, ops[1])
                data_width == ReadVal(d, ops[2])
                size == ReadVal(d, ops[3])
                speed == ReadVal(d, ops[4])
                man_idx == At(d, offset + 23)
                ser_idx == At(d, offset + 24)
                asset_idx == At(d, offset + 25)
                part_idx == At(d, offset + 26)
                dev_idx == At(d, offset + 16)
                bank_idx == At(d, offset + 17)
            IN Done(<<Entry("Device Locator", Str(lst, dev_idx)),
                      Entry("Bank Locator", Str(lst, bank_idx)),
                      Entry("Size", MemSizeValue(size)),
                      Entry("Speed", MemSpeedValue(speed)),
                      Entry("Manufacturer", Str(lst, man_idx)),
                      Entry("Serial Number", Str(lst, ser_idx)),
                      Entry("Asset Tag", Str(lst, asset_idx)),
                      Entry("Part Number", Str(lst, part_idx)),
                      Entry("Total Width", Dec(total_width) \o STR_bits),
                      Entry("Data Width", Dec(data_width) \o STR_bits)>>,
                    ReadsOf(d, ops)))

\* the record types of the parsers dictionary
ParserTypes == {0, 1, 2, 3, 4, 17}

\* the decoder's outcome with its field list as None or one value
get_parsed_smbios_info(type_id, d, offset, length, lst) ==
  LET r == CASE type_id = 0 -> parse_type_0(d, offset, length, lst)
             [] type_id = 1 -> parse_type_1(d, offset, length, lst)
             [] type_id = 2 -> parse_type_2(d, offset, length, lst)
             [] type_id = 3 -> parse_type_3(d, offset, length, lst)
             [] type_id = 4 -> parse_type_4(d, offset, length, lst)
             [] type_id = 17 -> parse_type_17(d, offset, length, lst)
             [] OTHER -> [raised |-> FALSE, info |-> <<>>, reads |-> {}]
  IN IF type_id \in ParserTypes
       THEN [raised |-> r.raised, details |-> <<r.info>>, reads |-> r.reads]
       ELSE [raised |-> FALSE, details |-> <<>>, reads |-> {}]

(***************************************************************************)
(* cli_main.py: cmd_smbios.  pc is the driver's position: "start" before   *)
(* the buffer is looked at, "walk" at the head of the while loop, "done"   *)
(* after the loop (or the early return), "crashed" when an exception left  *)
(* the driver.  out is what was printed, one entry per structure.          *)
(***************************************************************************)
\* the entry printed for one structure: header, strings and details
StructureEntry(offset, header, next_offset, lst, details) ==
  [offset |-> offset, type |-> header.type, length |-> header.length,
   handle |-> header.handle, next_offset |-> next_offset,
   strings |-> lst, details |-> details]

\* lines 95-117: the empty-buffer return, the RawSMBIOSData header, the
\* start offset
CmdSmbiosBegin ==
  /\ pc = "start"
  /\ IF data = <<>>
       THEN /\ pc' = "done"
            /\ UNCHANGED current_off
       ELSE /\ pc' = "walk"
            /\ current_off' = parse_raw_smbios_data_header(data).offset
  /\ UNCHANGED <<data, structure_count, out, strings, index, result>>

\* lines 121-162: one turn of the while loop that finds a structure
WalkStep ==
  /\ pc = "walk"
  /\ current_off < Len(data)
  /\ LET r == parse_smbios_structure(data, current_off) IN
       /\ r.header # <<>>
       /\ LET header == r.header[1]
              next_offset == r.next_offset[1]
              lst == get_smbios_strings(data, current_off, header.length)
              det == get_parsed_smbios_info(header.type, data, current_off,
                                            header.length, lst)
          IN /\ structure_count' = structure_count + 1
             /\ IF det.raised
                  THEN /\ pc' = "crashed"
                       /\ UNCHANGED <<out, current_off>>
                  ELSE /\ out' = Append(out, StructureEntry(current_off, header,
                                                            next_offset, lst, det.details))
                       /\ current_off' = next_offset
                       /\ pc' = "walk"
  /\ UNCHANGED <<data, strings, index, result>>

\* lines 121-125, 164: the loop ends, at the end of the buffer or at a
\* structure parse_smbios_structure does not return
WalkEnd ==
  /\ pc = "walk"
  /\ ~(/\ current_off < Len(data)
        /\ parse_smbios_structure(data, current_off).header # <<>>)
  /\ pc' = "done"
  /\ UNCHANGED <<data, current_off, structure_count, out, strings, index, result>>

(***************************************************************************)
(* The SMBIOS buffers get_smbios_data is taken to return.                  *)
(***************************************************************************)
\* the bytes of the enumerated tails: 0 (terminator, type 0, bad length),
\* 3 (type 3, bad length), 4 (type 4, smallest length), 9 (a type with no
\* decoder, a length that outruns a short buffer)
TableBytes == {0, 3, 4, 9}

\* every byte string over TableBytes of at most MaxTail bytes
Tails == UNION {[1..n -> TableBytes] : n \in 0..MaxTail}

\* three well-formed structures: a type 9 one with no strings, a chassis
\* one (type 3, length 8) with the strings "AB" and "C", and a type 9 one
\* whose strings are the UTF-8 bytes C3 A9 and the lone byte 80
WellFormed ==
  {<<9, 4, 1, 0, 0, 0>>,
   <<3, 8, 2, 0, 1, 23, 0, 2, 65, 66, 0, 67, 0, 0>>,
   <<9, 4, 3, 0, 195, 169, 0, 128, 0, 0>>}

RECURSIVE PrefixesOf(_)
\* the concatenations of at most n well-formed structures
PrefixesOf(n) ==
  IF n = 0 THEN {<<>>}
  ELSE LET shorter == PrefixesOf(n - 1)
       IN shorter \cup {p \o w : p \in shorter, w \in WellFormed}

\* struct.pack('<I', v)
Pack32(v) == <<v.lo % 256, v.lo \div 256, v.hi % 256, v.hi \div 256>>

\* the RawSMBIOSData header Windows puts before a table: SMBIOS 3.2
RawHeader(table) == <<0, 3, 2, 0>> \o Pack32(U32(0, Len(table)))

\* bare tails (shorter than a RawSMBIOSData header when MaxTail < 8), and
\* tables of well-formed structures followed by a tail, behind their header
SmbiosBuffers ==
  Tails \cup {RawHeader(p \o t) \o p \o t : p \in PrefixesOf(MaxPrefix), t \in Tails}

Init ==
  /\ data \in SmbiosBuffers
  /\ pc = "start"
  /\ current_off = 0
  /\ structure_count = 0
  /\ out = <<>>
  /\ strings = <<>>
  /\ index = 0
  /\ result = <<>>

Next == CmdSmbiosBegin \/ WalkStep \/ WalkEnd

Spec == Init /\ [][Next]_vars

(***************************************************************************)
(* Properties of the record walk.                                          *)
(***************************************************************************)
\* a is a prefix of b
IsPrefix(a, b) == Len(a) <= Len(b) /\ SubSeq(b, 1, Len(a)) = a

\* the walk so far: every structure printed has a next offset beyond its own
\* offset and within the buffer, each one starts where the one before it
\* ended, and there are no more structures than bytes
WalkBounded ==
  /\ pc # "crashed"
  /\ structure_count = Len(out)
  /\ Len(out) <= Len(data)
  /\ \A k \in 1..Len(out) :
       /\ out[k].next_offset > out[k].offset
       /\ out[k].next_offset <= Len(data)
       /\ k > 1 => out[k].offset = out[k - 1].next_offset

\* the loop's variant: at the head of the loop the offset is the next offset
\* of the last structure printed (so every turn made it strictly larger),
\* and it is at most len(buffer); the loop turns at most len(buffer) times
WalkProgresses ==
  pc \in {"walk", "done"} /\ data # <<>> =>
    /\ current_off <= Len(data)
    /\ out # <<>> => current_off = out[Len(out)].next_offset
    /\ out = <<>> => current_off = parse_raw_smbios_data_header(data).offset

\* C1: the record walk terminates (each step moves the offset strictly
\* forward, the offset never passes len(buffer), and no exception ends the
\* driver), every next offset is strictly greater than the offset of
\* its record and at most len(buffer), and no more records are visited than
\* the buffer has bytes.
C1_WalkTerminates == WalkBounded /\ WalkProgresses

\* C1 witness: a walk that visited two structures and ended
C1_Witness == pc = "done" /\ Len(out) >= 2

\* a structure header fits at offset and declares a length below 4
MalformedAt(d, offset) ==
  /\ offset + StructHeaderSize <= Len(d)
  /\ At(d, offset + 1) < 4

\* C2: when the walk reaches a record whose declared length is < 4 it halts
\* there: no entry is produced for that record or for anything after it, and
\* the entries produced before it stay as they are.
C2_MalformedHalts ==
  [][/\ (pc = "walk" /\ MalformedAt(data, current_off))
          => (pc' = "done" /\ out' = out /\ structure_count' = structure_count)
     /\ pc = "done" => out' = out]_vars

\* C2 witness: the walk halted at a malformed record after printing one
C2_Witness == pc = "done" /\ Len(out) >= 1 /\ MalformedAt(data, current_off)

\* a structure header fits at offset, declares a valid length, and its
\* formatted section runs past the end of the buffer
TruncatedAt(d, offset) ==
  /\ offset + StructHeaderSize <= Len(d)
  /\ At(d, offset + 1) >= 4
  /\ Len(d) < offset + At(d, offset + 1)

\* the entry a truncated record must get: its header, next offset
\* len(buffer), an empty pool, and fields that are absent (no decoder) or a
\* non-empty list
TruncatedEntry(e, d, offset) ==
  /\ e.offset = offset
  /\ e.type = At(d, offset)
  /\ e.length = At(d, offset + 1)
  /\ e.next_offset = Len(d)
  /\ e.strings = <<>>
  /\ e.details = <<>> \/ Len(e.details[1]) >= 1

\* C3: a record whose header fits but whose formatted section runs past the
\* buffer end raises nothing: it gets an entry with its header, next offset
\* len(buffer), an empty pool and partial or diagnostic fields; no record
\* follows it; the records produced before it are retained.
C3_TruncatedRecord ==
  [][/\ IsPrefix(out, out')
     /\ pc' # "crashed"
     /\ (pc = "walk" /\ TruncatedAt(data, current_off))
          => /\ pc' = "walk"
             /\ Len(out') = Len(out) + 1
             /\ TruncatedEntry(out'[Len(out')], data, current_off)
     /\ (pc = "walk" /\ out # <<>> /\ TruncatedAt(data, out[Len(out)].offset))
          => (pc' = "done" /\ out' = out)]_vars

\* C3 witness: a truncated record was printed after another record, with a
\* diagnostic entry, and the walk ended
C3_Witness ==
  /\ pc = "done"
  /\ Len(out) >= 2
  /\ TruncatedAt(data, out[Len(out)].offset)
  /\ out[Len(out)].details # <<>>

(***************************************************************************)
(* get_string_by_index on its own: a pool and a string index, as the       *)
(* decoders hand them over (the index is one byte of the buffer).          *)
(***************************************************************************)
\* the values of a byte
ByteValues == 0..255

\* the strings of the pools: "A", "BC" and the empty string
PoolStrings == {<<65>>, <<66, 67>>, <<>>}

\* every pool of at most MaxPool strings
Pools == UNION {[1..n -> PoolStrings] : n \in 0..MaxPool}

InitResolve ==
  /\ strings \in Pools
  /\ index \in ByteValues
  /\ pc = "start"
  /\ result = <<>>
  /\ data = <<>>
  /\ current_off = 0
  /\ structure_count = 0
  /\ out = <<>>

\* the call get_string_by_index(strings, index)
Resolve ==
  /\ pc = "start"
  /\ result' = <<get_string_by_index(strings, index)>>
  /\ pc' = "done"
  /\ UNCHANGED <<data, current_off, structure_count, out, strings, index>>

NextResolve == Resolve

SpecResolve == InitResolve /\ [][NextResolve]_vars

RECURSIVE ParseDec(_)
\* the number a digit string writes
ParseDec(digits) ==
  IF digits = <<>> THEN 0
  ELSE 10 * ParseDec(SubSeq(digits, 1, Len(digits) - 1)) + (digits[Len(digits)] - 48)

\* value is "<Bad String Index: N>" with N the decimal numeral of idx
NamesBadIndex(value, idx) ==
  LET n == Len(value) - Len(STR_BadIndexOpen) - Len(STR_BadIndexClose)
      digits == SubSeq(value, Len(STR_BadIndexOpen) + 1, Len(STR_BadIndexOpen) + n)
  IN /\ n >= 1
     /\ SubSeq(value, 1, Len(STR_BadIndexOpen)) = STR_BadIndexOpen
     /\ SubSeq(value, Len(value), Len(value)) = STR_BadIndexClose
     /\ \A k \in 1..n : digits[k] \in 48..57
     /\ n > 1 => digits[1] # 48
     /\ ParseDec(digits) = idx

AcpiHeaderSize == 36

\* the format with the widths of the two OEM tags exchanged
AcpiFmt_TagsSwapped ==
  <<[code |-> "s", n |-> 4], [code |-> "I", n |-> 4], [code |-> "B", n |-> 1],
    [code |-> "B", n |-> 1], [code |-> "s", n |-> 8], [code |-> "s", n |-> 6],
    [code |-> "I", n |-> 4], [code |-> "s", n |-> 4], [code |-> "I", n |-> 4]>>

\* fmt = "<4sIBB6s8sI4sI": little-endian, no padding; n is the item's size
AcpiFmt ==
  <<[code |-> "s", n |-> 4], [code |-> "I", n |-> 4], [code |-> "B", n |-> 1],
    [code |-> "B", n |-> 1], [code |-> "s", n |-> 6], [code |-> "s", n |-> 8],
    [code |-> "I", n |-> 4], [code |-> "s", n |-> 4], [code |-> "I", n |-> 4]>>

RECURSIVE CalcSize(_)
\* struct.calcsize(fmt)
CalcSize(fmt) == IF fmt = <<>> THEN 0 ELSE Head(fmt).n + CalcSize(Tail(fmt))

\* one unpacked item: the bytes of an s item, the number of an I or B item
UnpackItem(item, b) ==
  IF item.code = "s" THEN b
  ELSE IF item.code = "I" THEN <<U32LE(b)>>
  ELSE <<b[1]>>

RECURSIVE UnpackItems(_, _)
\* the items of fmt taken from b one after the other
UnpackItems(fmt, b) ==
  IF fmt = <<>> THEN <<>>
  ELSE <<UnpackItem(Head(fmt), SubSeq(b, 1, Head(fmt).n))>>
       \o UnpackItems(Tail(fmt), SubSeq(b, Head(fmt).n + 1, Len(b)))

\* struct.unpack(fmt, b): struct.error unless b has exactly calcsize(fmt) bytes
StructUnpack(fmt, b) ==
  IF Len(b) # CalcSize(fmt)
    THEN [exc |-> "struct.error", parts |-> <<>>]
    ELSE [exc |-> "", parts |-> UnpackItems(fmt, b)]

\* clean_str: decode('ascii', errors='ignore') never raises, so the except
\* branch is not taken
clean_str(b) == StripNul(DecodeAsciiIgnore(b))

\* the length check with its bound one too far
TooShortForHeader_OneTooFar(d) == Len(d) <= AcpiHeaderSize

\* if len(data) < 36
TooShortForHeader(d) == Len(d) < AcpiHeaderSize

\* the outcome of the call: exc is "" and header holds the AcpiTableHeader, or
\* exc is the exception raised with msg its str()
parse_acpi_header(d) ==
  IF TooShortForHeader(d)
    THEN [exc |-> "ValueError", msg |-> MSG_TooShort, header |-> <<>>]
  ELSE LET u == StructUnpack(AcpiFmt, Slice(d, 0, AcpiHeaderSize)) IN
    IF u.exc # ""
      THEN [exc |-> u.exc, msg |-> <<>>, header |-> <<>>]
    ELSE [exc |-> "", msg |-> <<>>,
          header |-> <<[signature |-> clean_str(u.parts[1]),
                        length |-> u.parts[2][1],
                        revision |-> u.parts[3][1],
                        checksum |-> u.parts[4][1],
                        oem_id |-> clean_str(u.parts[5]),
                        oem_table_id |-> clean_str(u.parts[6]),
                        oem_revision |-> u.parts[7][1],
                        creator_id |-> clean_str(u.parts[8]),
                        creator_revision |-> u.parts[9][1]]>>]

(***************************************************************************)
(* cli_main.py: cmd_dump_acpi, and gui_main.py: show_acpi.  result is the  *)
(* outcome of the parse_acpi_header call (empty while it was not called),  *)
(* out is what was presented, in order.                                    *)
(***************************************************************************)
\* one thing presented: a notice, the decoded header, an error line, or the
\* hexadecimal view of the raw bytes
Shown(kind, text, header, bytes) ==
  [kind |-> kind, text |-> text, header |-> header, bytes |-> bytes]

\* `except Exception` of the two drivers
DriverCatches(exc) == exc \in {"ValueError", "struct.error", "IndexError"}

\* the try block of both drivers around parse_acpi_header, and what follows
\* it once the call returned or its exception was caught
AfterParse(r, before, after) ==
  IF r.exc = ""
    THEN /\ out' = before \o <<Shown("header", <<>>, r.header, <<>>)>> \o after
         /\ pc' = "done"
  ELSE IF DriverCatches(r.exc)
    THEN /\ out' = before \o <<Shown("error", r.msg, <<>>, <<>>)>> \o after
         /\ pc' = "done"
  ELSE /\ out' = before
       /\ pc' = "crashed"

\* cmd_dump_acpi: nothing retrieved, or the header (or the error), then the
\* hex dump
CmdDumpAcpi ==
  /\ pc = "start"
  /\ IF data = <<>>
       THEN /\ out' = <<Shown("not_retrieved", <<>>, <<>>, <<>>)>>
            /\ pc' = "done"
            /\ UNCHANGED result
       ELSE /\ result' = <<parse_acpi_header(data)>>
            /\ AfterParse(parse_acpi_header(data), <<>>,
                          <<Shown("hex", <<>>, <<>>, data)>>)
  /\ UNCHANGED <<data, current_off, structure_count, strings, index>>

\* show_acpi: the hex view first, then the header (or the error)
ShowAcpi ==
  /\ pc = "start"
  /\ result' = <<parse_acpi_header(data)>>
  /\ AfterParse(parse_acpi_header(data), <<Shown("hex", <<>>, <<>>, data)>>, <<>>)
  /\ UNCHANGED <<data, current_off, structure_count, strings, index>>

(***************************************************************************)
(* The ACPI buffers get_acpi_table is taken to return: a header built from *)
(* chosen fields over a fill, cut or extended to every length.             *)
(***************************************************************************)
\* most bytes of table body after the header
MaxBody == 3

\* signatures: "FACP", "    ", "~~~~" (printable), and "AB" padded with
\* zero bytes, "ACP" after a 0xFF byte, "SDT" after a zero byte
AcpiSignatures ==
  {<<70, 65, 67, 80>>, <<32, 32, 32, 32>>, <<126, 126, 126, 126>>,
   <<65, 66, 0, 0>>, <<255, 65, 67, 80>>, <<0, 83, 68, 84>>}

\* the signatures of printable ASCII characters
PrintableSignatures == {sg \in AcpiSignatures : \A k \in 1..4 : sg[k] \in 32..126}

\* table lengths: 0, 0x100, 0x01020304, 0xFFFFFFFF
AcpiLengths == {U32(0, 0), U32(0, 256), U32(258, 772), U32(65535, 65535)}

\* revisions and checksums
AcpiBytes == {0, 3, 255}

\* the fills of the bytes after the checksum, by byte offset: letters;
\* letters with every third byte zero; a spread over all byte values
AcpiFills == {"letters", "zeros", "spread"}

FillByte(fill, i) ==
  IF fill = "letters" THEN 65 + (i % 26)
  ELSE IF fill = "zeros" THEN (IF i % 3 = 0 THEN 0 ELSE 65 + (i % 26))
  ELSE (i * 37) % 256

\* the table: signature, length, revision, checksum packed little-endian at
\* 0, 4, 8, 9, then the fill up to AcpiHeaderSize + MaxBody bytes
BuildAcpi(sg, length, revision, checksum, fill) ==
  sg \o Pack32(length) \o <<revision, checksum>>
     \o [i \in 1..(AcpiHeaderSize + MaxBody - 10) |-> FillByte(fill, i + 9)]

AcpiBuffers ==
  {SubSeq(BuildAcpi(sg, length, revision, checksum, fill), 1, n) :
     sg \in AcpiSignatures, length \in AcpiLengths, revision \in AcpiBytes,
     checksum \in {0, 255}, fill \in AcpiFills,
     n \in {0, 1, 35, AcpiHeaderSize, AcpiHeaderSize + MaxBody}}

InitAcpi ==
  /\ data \in AcpiBuffers
  /\ pc = "start"
  /\ result = <<>>
  /\ out = <<>>
  /\ current_off = 0
  /\ structure_count = 0
  /\ strings = <<>>
  /\ index = 0

NextAcpi == CmdDumpAcpi \/ ShowAcpi

SpecAcpi == InitAcpi /\ [][NextAcpi]_vars

(***************************************************************************)
(* Properties of the ACPI header decoder and its callers.                  *)
(***************************************************************************)
\* the kinds of the things presented, in order
KindsShown == [k \in 1..Len(out) |-> out[k].kind]

\* C5: parse_acpi_header fails with the length error exactly when
\* len(buffer) < 36 and returns a header for every buffer of 36 bytes or more;
\* the error stays in that call: the caller reports it and still presents the
\* raw buffer, and no exception ends the driver.
C5_LengthError ==
  /\ pc # "crashed"
  /\ (pc = "done" /\ result # <<>>) =>
       LET r == result[1] IN
         /\ Len(data) < 36 =>
              /\ r.exc = "ValueError"
              /\ r.header = <<>>
              /\ \E k \in 1..Len(out) : out[k].kind = "error" /\ out[k].text = r.msg
              /\ \E k \in 1..Len(out) : out[k].kind = "hex" /\ out[k].bytes = data
              /\ \A k \in 1..Len(out) : out[k].kind # "header"
         /\ Len(data) >= 36 =>
              /\ r.exc = ""
              /\ Len(r.header) = 1
              /\ \A k \in 1..Len(out) : out[k].kind # "error"

\* C5 witness: cmd_dump_acpi reported the length error of a 35-byte buffer
\* and then dumped the buffer
C5_Witness ==
  /\ pc = "done"
  /\ Len(data) = 35
  /\ KindsShown = <<"error", "hex">>
  /\ out[2].bytes = data

\* the bytes stored at Python offsets o .. o+n-1 (those the buffer has)
Stored(o, n) == Slice(data, o, o + n)

\* the number stored little-endian in the four bytes at offset o
StoredU32(o) ==
  U32(At(data, o + 2) + 256 * At(data, o + 3), At(data, o) + 256 * At(data, o + 1))

\* t is the ASCII text of the bytes b without its leading and trailing zero
\* characters: the bytes below 0x80, in order, cut to the stretch between
\* the first and the last non-zero one
IsCleanTextOf(t, b) ==
  LET a == SelectSeq(b, LAMBDA x : x <= 127)
      nz == {k \in 1..Len(a) : a[k] # 0}
  IN IF nz = {} THEN t = <<>>
     ELSE LET first == CHOOSE k \in nz : \A j \in nz : k <= j
              last == CHOOSE k \in nz : \A j \in nz : k >= j
          IN t = [k \in 1..(last - first + 1) |-> a[first + k - 1]]

\* the header the driver decoded
DecodedHeader == result[1].header[1]

\* a header was decoded
HeaderDecoded == pc = "done" /\ result # <<>> /\ result[1].exc = ""

\* C6 as the specification states it: every field is the value stored at
\* signature@0(4), length@4, revision@8, checksum@9, oemId@10(6),
\* oemTableId@18(8), oemRevision@26, creatorId@30(4), creatorRevision@34
\* (the last one where the buffer has the bytes 34..37), a text field being
\* the stored bytes decoded permissively as the specification's data model
\* describes.
C6_LayoutAsStated ==
  HeaderDecoded =>
    /\ IsCleanTextOf(DecodedHeader.signature, Stored(0, 4))
    /\ DecodedHeader.length = StoredU32(4)
    /\ DecodedHeader.revision = At(data, 8)
    /\ DecodedHeader.checksum = At(data, 9)
    /\ IsCleanTextOf(DecodedHeader.oem_id, Stored(10, 6))
    /\ IsCleanTextOf(DecodedHeader.oem_table_id, Stored(18, 8))
    /\ DecodedHeader.oem_revision = StoredU32(26)
    /\ IsCleanTextOf(DecodedHeader.creator_id, Stored(30, 4))
    /\ Len(data) >= 38 => DecodedHeader.creator_revision = StoredU32(34)

\* C6 (amended): for every buffer of 36 bytes or more the numeric fields are
\* the little-endian values stored at length@4, revision@8, checksum@9,
\* oemRevision@24, creatorRevision@32, and the text fields are the bytes
\* stored at signature@0(4), oemId@10(6), oemTableId@16(8), creatorId@28(4)
\* with the bytes of 0x80 and above dropped and the leading and trailing zero
\* characters stripped.
C6_Layout ==
  HeaderDecoded =>
    /\ IsCleanTextOf(DecodedHeader.signature, Stored(0, 4))
    /\ DecodedHeader.length = StoredU32(4)
    /\ DecodedHeader.revision = At(data, 8)
    /\ DecodedHeader.checksum = At(data, 9)
    /\ IsCleanTextOf(DecodedHeader.oem_id, Stored(10, 6))
    /\ IsCleanTextOf(DecodedHeader.oem_table_id, Stored(16, 8))
    /\ DecodedHeader.oem_revision = StoredU32(24)
    /\ IsCleanTextOf(DecodedHeader.creator_id, Stored(28, 4))
    /\ DecodedHeader.creator_revision = StoredU32(32)

\* C6 witness: a header was decoded whose OEM table id is the eight bytes at
\* offset 16 and not those at offset 18, and whose signature lost a byte of
\* 0x80 or above
C6_Witness ==
  /\ HeaderDecoded
  /\ Stored(16, 8) # Stored(18, 8)
  /\ DecodedHeader.oem_table_id = Stored(16, 8)
  /\ Stored(0, 4) = <<255, 65, 67, 80>>
  /\ DecodedHeader.signature = <<65, 67, 80>>

\* C7: round trip: a header built from a printable 4-character signature, a
\* u32 length, a u8 revision and a u8 checksum at offsets 0, 4, 8, 9 decodes
\* back to exactly those four values, whatever the other bytes hold.
C7_RoundTrip ==
  \A sg \in PrintableSignatures, length \in AcpiLengths,
     revision \in AcpiBytes, checksum \in AcpiBytes :
    (HeaderDecoded /\ Slice(data, 0, 10) = sg \o Pack32(length) \o <<revision, checksum>>)
      => /\ DecodedHeader.signature = sg
         /\ DecodedHeader.length = length
         /\ DecodedHeader.revision = revision
         /\ DecodedHeader.checksum = checksum

\* C7 witness: the header "FACP", 0x100, 3, 0 of exactly 36 bytes decoded
\* back
C7_Witness ==
  /\ HeaderDecoded
  /\ Len(data) = 36
  /\ Slice(data, 0, 10) = <<70, 65, 67, 80, 0, 1, 0, 0, 3, 0>>
  /\ DecodedHeader.signature = <<70, 65, 67, 80>>
  /\ DecodedHeader.length = U32(0, 256)
  /\ DecodedHeader.revision = 3
  /\ DecodedHeader.checksum = 0

(***************************************************************************)
(* SMBIOS buffers that exercise the type decoders: one structure of a      *)
(* decoded type with a chosen declared length, its formatted section       *)
(* filled with small string indexes, a string pool, an optional structure  *)
(* after it, the whole cut at every length; Memory Device structures over  *)
(* a range of sizes and speeds; BIOS structures over every ROM-size byte.  *)
(***************************************************************************)
\* most multiples of SweepStep among the Memory Device sizes
MaxSweep == 6

\* the step of the sweep of Memory Device sizes
SweepStep == 4111

\* the byte of the fill at record offset o: a string index 0..3
FillAt(o) == o % 4

\* a structure of type t and declared length len (handle 7): its formatted
\* section is the fill, but for the bytes ov gives by record offset
Record(t, len, ov) ==
  [i \in 1..len |->
     LET o == i - 1 IN
       IF o = 0 THEN t
       ELSE IF o = 1 THEN len
       ELSE IF o = 2 THEN 7
       ELSE IF o = 3 THEN 0
       ELSE IF o \in DOMAIN ov THEN ov[o]
       ELSE FillAt(o)]

\* the types of the structures: the decoded ones and one without decoder
TemplateTypes == ParserTypes \cup {9}

\* declared lengths: header only, up to and one past the optional fields at
\* 0x08, the BIOS block, the Memory Device block, around the Processor
\* fields at 0x23 and 0x25
TemplateLengths == {4, 8, 9, 18, 27, 35, 36, 38, 40}

\* string pools: empty, and "A", "BC"
TemplatePools == {<<0, 0>>, <<65, 0, 66, 67, 0, 0>>}

\* what follows the structure: nothing, or a type 9 structure
TemplateTrailers == {<<>>, <<9, 4, 1, 0, 0, 0>>}

\* a table behind its RawSMBIOSData header
Wrapped(table) == RawHeader(table) \o table

\* every table of one structure, cut at every length
CutTables ==
  UNION {{SubSeq(Record(t, len, <<>>) \o pool \o trailer, 1, n) :
            n \in 0..(len + Len(pool) + Len(trailer))} :
         t \in TemplateTypes, len \in TemplateLengths,
         pool \in TemplatePools, trailer \in TemplateTrailers}

\* Memory Device sizes: the special values, both sides of the high bit, and
\* a sweep
MemSizes ==
  {0, 1, 16, 32767, 32768, 32769, 32784, 65534, 65535}
    \cup {k * SweepStep : k \in 1..MaxSweep}

\* Memory Device speeds
MemSpeeds == {0, 1, 2400, 65535}

\* Memory Device structures (type 17, length 0x1B) with size at 0x0C and
\* speed at 0x15, little-endian
MemTables ==
  {Record(17, 27, (12 :> (size % 256)) @@ (13 :> (size \div 256)) @@
                  (21 :> (speed % 256)) @@ (22 :> (speed \div 256))) \o pool :
     size \in MemSizes, speed \in MemSpeeds, pool \in TemplatePools}

\* BIOS structures (type 0, length 0x12) with every ROM-size byte at 0x09
BiosTables ==
  {Record(0, 18, (9 :> b)) \o pool : b \in ByteValues, pool \in TemplatePools}

DecodeBuffers ==
  {<<>>} \cup {Wrapped(t) : t \in CutTables \cup MemTables \cup BiosTables}

InitDecode ==
  /\ data \in DecodeBuffers
  /\ pc = "start"
  /\ current_off = 0
  /\ structure_count = 0
  /\ out = <<>>
  /\ strings = <<>>
  /\ index = 0
  /\ result = <<>>

SpecDecode == InitDecode /\ [][Next]_vars

(***************************************************************************)
(* Properties of the type decoders, on the structures cmd_smbios printed.  *)
(***************************************************************************)
\* the field list of a printed structure (empty when it has no decoder)
InfoOf(e) == IF e.details = <<>> THEN <<>> ELSE e.details[1]

\* the positions of the entries of info labelled key
Labelled(info, key) == {k \in 1..Len(info) : info[k].key = key}

\* info has exactly one entry labelled key, and its value is val
HasField(info, key, val) ==
  /\ Cardinality(Labelled(info, key)) = 1
  /\ \A k \in Labelled(info, key) : info[k].val = val

\* val is the decimal numeral of n followed by unit
IsNumberWithUnit(val, n, unit) ==
  LET w == Len(val) - Len(unit)
      digits == SubSeq(val, 1, w)
  IN /\ w >= 1
     /\ SubSeq(val, w + 1, Len(val)) = unit
     /\ \A k \in 1..w : digits[k] \in 48..57
     /\ w > 1 => digits[1] # 48
     /\ ParseDec(digits) = n

\* the 16-bit number stored little-endian at Python offset o
StoredU16(o) == At(data, o) + 256 * At(data, o + 1)

\* the printed structures of type t all of whose record offsets up to last
\* are inside the buffer
Printed(t, last) ==
  {k \in 1..Len(out) : out[k].type = t /\ out[k].offset + last < Len(data)}

\* C8: Memory Device (type 17) size decoding, in this order of precedence:
\* 0xFFFF is "Unknown / Extended"; 0 is "No Module Installed"; with the high
\* bit set the low 15 bits are kilobytes (0x8010 is "16 KB"); otherwise the
\* value is megabytes (0x0010 is "16 MB").  Speed 0 is "Unknown", any other
\* speed is the value followed by " MT/s".
C8_MemorySize ==
  \A k \in Printed(17, 26) :
    LET info == InfoOf(out[k])
        size == StoredU16(out[k].offset + 12)
        speed == StoredU16(out[k].offset + 21)
    IN /\ Cardinality(Labelled(info, "Size")) = 1
       /\ Cardinality(Labelled(info, "Speed")) = 1
       /\ \A i \in Labelled(info, "Size") :
            /\ size = 65535 =>
                 info[i].val = <<85, 110, 107, 110, 111, 119, 110, 32, 47, 32,
                                 69, 120, 116, 101, 110, 100, 101, 100>>
            /\ size = 0 =>
                 info[i].val = <<78, 111, 32, 77, 111, 100, 117, 108, 101, 32,
                                 73, 110, 115, 116, 97, 108, 108, 101, 100>>
            /\ (size # 65535 /\ size \div 32768 = 1) =>
                 IsNumberWithUnit(info[i].val, size % 32768, <<32, 75, 66>>)
            /\ (size # 0 /\ size \div 32768 = 0) =>
                 IsNumberWithUnit(info[i].val, size, <<32, 77, 66>>)
            /\ size = 32784 => info[i].val = <<49, 54, 32, 75, 66>>
            /\ size = 16 => info[i].val = <<49, 54, 32, 77, 66>>
       /\ \A i \in Labelled(info, "Speed") :
            /\ speed = 0 => info[i].val = <<85, 110, 107, 110, 111, 119, 110>>
            /\ speed # 0 => IsNumberWithUnit(info[i].val, speed, <<32, 77, 84, 47, 115>>)

\* C8 witness: a Memory Device structure with size 0xFFFF was printed as
\* "Unknown / Extended", at 2400 MT/s
C8_Witness ==
  \E k \in Printed(17, 26) :
    /\ StoredU16(out[k].offset + 12) = 65535
    /\ StoredU16(out[k].offset + 21) = 2400
    /\ HasField(InfoOf(out[k]), "Size", STR_UnknownExtended)
    /\ HasField(InfoOf(out[k]), "Speed", <<50, 52, 48, 48, 32, 77, 84, 47, 115>>)

\* the entries of a BIOS structure that are not its three string fields
BeyondBiosStrings(info) ==
  {k \in 1..Len(info) : info[k].key \notin {"Vendor", "Version", "Release Date"}}

\* C9: BIOS Information (type 0) ROM size: for every ROM-size byte b other
\* than 0xFF the ROM Size field is (b+1)*64 kilobytes (0x07 is "512 KB"); for
\* b = 0xFF no size is computed from the byte and the output has an entry
\* that reports the extended ROM size as unsupported.
C9_RomSize ==
  \A k \in Printed(0, 9) :
    LET info == InfoOf(out[k])
        b == At(data, out[k].offset + 9)
    IN /\ b # 255 =>
            /\ Cardinality(Labelled(info, "ROM Size")) = 1
            /\ \A i \in Labelled(info, "ROM Size") :
                 IsNumberWithUnit(info[i].val, (b + 1) * 64, <<32, 75, 66>>)
       /\ b = 7 => HasField(info, "ROM Size", <<53, 49, 50, 32, 75, 66>>)
       /\ b = 255 =>
            /\ BeyondBiosStrings(info) # {}
            /\ \A i \in BeyondBiosStrings(info) :
                 ~IsNumberWithUnit(info[i].val, (b + 1) * 64, <<32, 75, 66>>)

\* the part of C9 the decoder meets: the ROM Size field of every byte other
\* than 0xFF
RomSizeComputed ==
  \A k \in Printed(0, 9) :
    LET info == InfoOf(out[k])
        b == At(data, out[k].offset + 9)
    IN b # 255 =>
         /\ Cardinality(Labelled(info, "ROM Size")) = 1
         /\ \A i \in Labelled(info, "ROM Size") :
              IsNumberWithUnit(info[i].val, (b + 1) * 64, <<32, 75, 66>>)

\* the record offsets a decoder has to read, by type and declared length
FieldOffsets(t, len) ==
  CASE t = 0 -> {4, 5, 8, 9}
    [] t = 1 -> {4, 5, 6, 7}
    [] t = 2 -> {4, 5, 6, 7} \cup (IF len > 8 THEN {8} ELSE {})
    [] t = 3 -> {4, 5, 6, 7}
    [] t = 4 -> {4, 5, 7, 16} \cup (IF len >= 35 THEN {35, 37} ELSE {})
    [] t = 17 -> (8..13) \cup {16, 17} \cup (21..26)
    [] OTHER -> {}

\* a field of the printed structure e lies outside the buffer
FieldOutOfRange(e) ==
  \E o \in FieldOffsets(e.type, e.length) : e.offset + o >= Len(data)

\* the UUID of the printed System structure e is declared, its string
\* indexes are readable, and fewer than its 16 bytes are in the buffer
UuidCutShort(e) ==
  /\ e.type = 1
  /\ e.length > 8
  /\ ~FieldOutOfRange(e)
  /\ Len(data) < e.offset + 24

\* C10: every type decoder (types 0, 1, 2, 3, 4, 17) is total: it returns a
\* non-empty sequence of fields and never raises; when a field read is out of
\* range the result carries exactly one Parse Error entry, placed last (for
\* a UUID cut short by the end of the buffer: the hexadecimal fallback of
\* the bytes present, placed last); with no such failure it carries none; and
\* neither the decode nor the record walk is aborted.
C10_DecodersTotal ==
  /\ pc # "crashed"
  /\ structure_count = Len(out)
  /\ WalkProgresses
  /\ \A k \in 1..Len(out) :
       LET e == out[k]
           info == InfoOf(e)
       IN e.type \in ParserTypes =>
            /\ e.details # <<>>
            /\ Len(info) >= 1
            /\ FieldOutOfRange(e) =>
                 /\ Labelled(info, "Parse Error") = {Len(info)}
                 /\ Len(info[Len(info)].val) > 0
            /\ ~FieldOutOfRange(e) => Labelled(info, "Parse Error") = {}
            /\ UuidCutShort(e) =>
                 /\ Labelled(info, "UUID") = {Len(info)}
                 /\ info[Len(info)].val = BytesHex(Slice(data, e.offset + 8, e.offset + 24))

\* C10 witness: a Memory Device structure too short for its fields got a
\* Parse Error as its only entry, the structure after it was printed too,
\* and the walk ended
C10_Witness ==
  /\ pc = "done"
  /\ Len(out) = 2
  /\ out[1].type = 17
  /\ FieldOutOfRange(out[1])
  /\ Len(InfoOf(out[1])) = 1
  /\ InfoOf(out[1])[1].key = "Parse Error"

(***************************************************************************)
(* Which bytes the type decoders read, and which fields they report.       *)
(***************************************************************************)
\* the buffer indexes the decoder of the printed structure e asked for
ReadsOfEntry(e) ==
  get_parsed_smbios_info(e.type, data, e.offset, e.length, e.strings).reads

\* the positions of the formatted section of the printed structure e
FormattedSection(e) == e.offset..(e.offset + e.length - 1)

\* C11: no type decoder reads outside the formatted section of its record:
\* for every record (offset, declaredLength) of a type in {0,1,2,3,4,17},
\* every buffer position the decoder reads lies in
\* [offset, offset+declaredLength).
C11_ReadsInsideRecord ==
  \A k \in 1..Len(out) :
    out[k].type \in ParserTypes =>
      (ReadsOfEntry(out[k]) \cap (0..(Len(data) - 1))) \subseteq FormattedSection(out[k])

\* what the decoders do keep to: a subscript is made at a fixed record
\* offset whatever the declared length, and every position asked for is at
\* or after the record's fifth byte
ReadsAfterHeader ==
  \A k \in 1..Len(out) :
    \A i \in ReadsOfEntry(out[k]) : i >= out[k].offset + StructHeaderSize

\* the printed Processor structures whose bytes up to record offset last are
\* in the buffer and whose declared length is one of lens
Processors(lens, last) == {k \in Printed(4, last) : out[k].length \in lens}

\* C12: per-field presence thresholds: the Processor (type 4) core count at
\* 0x23 is decoded only if declaredLength >= 0x23 and the thread count at
\* 0x25 only if declaredLength >= 0x25, so a record of declared length 0x23
\* or 0x24 yields a core count and no thread count; the System (type 1) UUID
\* and the Baseboard (type 2) asset-tag index at 0x08 are read only if
\* declaredLength > 0x08.
C12_FieldThresholds ==
  /\ \A k \in 1..Len(out) :
       LET e == out[k]
           info == InfoOf(e)
       IN /\ e.type = 4 =>
               /\ Labelled(info, "Core Count") # {} => e.length >= 35
               /\ Labelled(info, "Thread Count") # {} => e.length >= 37
               /\ e.offset + 37 \in ReadsOfEntry(e) => e.length >= 37
          /\ e.type = 1 =>
               /\ Labelled(info, "UUID") # {} => e.length > 8
               /\ e.offset + 8 \in ReadsOfEntry(e) => e.length > 8
          /\ e.type = 2 =>
               (e.offset + 8 \in ReadsOfEntry(e) => e.length > 8)
  /\ \A k \in Processors({35, 36}, 37) :
       /\ Cardinality(Labelled(InfoOf(out[k]), "Core Count")) = 1
       /\ Labelled(InfoOf(out[k]), "Thread Count") = {}

\* the part of C12 the decoders meet: the threshold of the core count, and
\* the thresholds of the UUID and of the asset-tag index at 0x08
ThresholdsAt08And23 ==
  \A k \in 1..Len(out) :
    LET e == out[k]
        info == InfoOf(e)
    IN /\ e.type = 4 =>
            /\ Labelled(info, "Core Count") # {} => e.length >= 35
            /\ e.offset + 35 \in ReadsOfEntry(e) => e.length >= 35
       /\ e.type = 1 =>
            /\ Labelled(info, "UUID") # {} => e.length > 8
            /\ e.offset + 8 \in ReadsOfEntry(e) => e.length > 8
            /\ (e.length > 8 /\ ~FieldOutOfRange(e)) => Labelled(info, "UUID") # {}
       /\ e.type = 2 =>
            /\ e.offset + 8 \in ReadsOfEntry(e) => e.length > 8
            /\ (e.length <= 8 /\ ~FieldOutOfRange(e)) =>
                 HasField(info, "Asset Tag", STR_None)

\* a field of a decoder: its label and the record offsets of its bytes
Field(key, at) == [key |-> key, at |-> at]

\* the fields each decoder reports, by type and declared length
FieldsOf(t, len) ==
  CASE t = 0 -> {Field("Vendor", {4}), Field("Version", {5}),
                 Field("Release Date", {8})}
    [] t = 1 -> {Field("Manufacturer", {4}), Field("Product Name", {5}),
                 Field("Version", {6}), Field("Serial Number", {7})}
    [] t = 2 -> {Field("Manufacturer", {4}), Field("Product Name", {5}),
                 Field("Version", {6}), Field("Serial Number", {7})}
    [] t = 3 -> {Field("Manufacturer", {4}), Field("Type", {5}),
                 Field("Version", {6}), Field("Serial Number", {7})}
    [] t = 4 -> {Field("Socket Designator", {4}), Field("Processor Type", {5}),
                 Field("Manufacturer", {7}), Field("Version", {16})}
                 \cup (IF len >= 35 THEN {Field("Core Count", {35})} ELSE {})
    [] t = 17 -> {Field("Total Width", {8, 9}), Field("Data Width", {10, 11}),
                  Field("Size", {12, 13}), Field("Device Locator", {16}),
                  Field("Bank Locator", {17}), Field("Speed", {21, 22}),
                  Field("Manufacturer", {23}), Field("Serial Number", {24}),
                  Field("Asset Tag", {25}), Field("Part Number", {26})}
    [] OTHER -> {}

\* the bytes of field f of the printed structure e are all in its formatted
\* section and in the buffer
FieldPresent(e, f) == \A o \in f.at : o < e.length /\ e.offset + o < Len(data)

\* C13: decoding is best-effort per field, never all-or-nothing: when one
\* field of a record cannot be read (the buffer ends inside the record),
\* every other field of that record whose bytes are present in the buffer is
\* still reported, together with the diagnostic for the failed field.
C13_BestEffort ==
  \A k \in 1..Len(out) :
    LET e == out[k]
        info == InfoOf(e)
    IN (e.type \in ParserTypes /\ FieldOutOfRange(e)) =>
         /\ Labelled(info, "Parse Error") # {}
         /\ \A f \in FieldsOf(e.type, e.length) :
              FieldPresent(e, f) => Labelled(info, f.key) # {}

\* what the decoders do report of a record with a field out of range: the
\* diagnostic, and nothing else unless every subscript before the guarded
\* ones of the Processor decoder succeeded
AllOrNothing ==
  \A k \in 1..Len(out) :
    LET e == out[k]
        info == InfoOf(e)
    IN (e.type \in ParserTypes /\ FieldOutOfRange(e)) =>
         /\ Labelled(info, "Parse Error") = {Len(info)}
         /\ Len(info) > 1 => (e.type = 4 /\ e.offset + 16 < Len(data))

(***************************************************************************)
(* The extent of a record: the double-zero scan of parse_smbios_structure  *)
(* and the string reader get_smbios_strings, on the structures cmd_smbios  *)
(* printed.                                                                *)
(***************************************************************************)
\* where the formatted section of the printed structure e ends
FormattedEnd(e) == e.offset + e.length

\* the positions at or after the formatted end of e that hold a zero byte
\* followed by a zero byte
DoubleZeros(e) ==
  {p \in FormattedEnd(e)..(Len(data) - 2) : At(data, p) = 0 /\ At(data, p + 1) = 0}

\* the smallest member of a non-empty set of numbers
Least(S) == CHOOSE p \in S : \A q \in S : p <= q

\* C14: for a record at offset with declaredLength >= 4 and formattedEnd =
\* offset + declaredLength, the next offset is p+2 where p is the smallest
\* position >= formattedEnd with buffer[p] = 0 and buffer[p+1] = 0
\* (p+1 < len(buffer)); if there is no such p the next offset is
\* len(buffer).  The scan never reads a position >= len(buffer).
C14_NextOffset ==
  \A k \in 1..Len(out) :
    LET e == out[k]
        r == parse_smbios_structure(data, e.offset)
    IN /\ e.length >= 4
       /\ r.next_offset = <<e.next_offset>>
       /\ DoubleZeros(e) # {} => e.next_offset = Least(DoubleZeros(e)) + 2
       /\ DoubleZeros(e) = {} => e.next_offset = Len(data)
       /\ ScanReads(data, FormattedEnd(e)) \subseteq FormattedEnd(e)..(Len(data) - 1)
       /\ \A i \in ScanReads(data, FormattedEnd(e)) : i < e.next_offset

\* C14 witness: the walk ended after a structure whose pair of zero bytes
\* comes after two strings, and a last structure with bytes after its
\* formatted section and no pair of zero bytes, which ends at len(buffer)
C14_Witness ==
  /\ pc = "done"
  /\ Len(out) >= 2
  /\ DoubleZeros(out[1]) # {}
  /\ Least(DoubleZeros(out[1])) > FormattedEnd(out[1]) + 2
  /\ out[1].next_offset = Least(DoubleZeros(out[1])) + 2
  /\ FormattedEnd(out[Len(out)]) < Len(data)
  /\ DoubleZeros(out[Len(out)]) = {}
  /\ out[Len(out)].next_offset = Len(data)

\* the zero-terminated runs of non-zero bytes of the extent of e: from is
\* the formatted end or follows a zero byte, to is the terminating zero, and
\* both lie in [formattedEnd, nextOffset)
RunsOf(e) ==
  {r \in [from : FormattedEnd(e)..(e.next_offset - 1),
          to : FormattedEnd(e)..(e.next_offset - 1)] :
     /\ r.from < r.to
     /\ At(data, r.to) = 0
     /\ \A i \in r.from..(r.to - 1) : At(data, i) # 0
     /\ r.from = FormattedEnd(e) \/ At(data, r.from - 1) = 0}

\* r is the i-th run of e in buffer order
IsNthRun(e, r, i) ==
  r \in RunsOf(e) /\ Cardinality({q \in RunsOf(e) : q.from < r.from}) = i - 1

\* C16: the string reader and the walker agree on a record's extent: for
\* every record the walker produces (declaredLength >= 4), every string
\* get_smbios_strings returns is taken from a non-empty, zero-free byte run
\* (the string is the run's UTF-8 decoding) lying entirely inside
\* [offset+declaredLength, nextOffset), nextOffset being what
\* parse_smbios_structure returns for the record; the strings are the runs
\* of that span in buffer order, and no byte of the next record is taken.
C16_ReaderWithinExtent ==
  \A k \in 1..Len(out) :
    LET e == out[k] IN
      /\ e.length >= 4
      /\ e.strings = get_smbios_strings(data, e.offset, e.length)
      /\ parse_smbios_structure(data, e.offset).next_offset = <<e.next_offset>>
      /\ Len(e.strings) <= Cardinality(RunsOf(e))
      /\ \A i \in 1..Len(e.strings) :
           \E r \in RunsOf(e) :
             /\ IsNthRun(e, r, i)
             /\ FormattedEnd(e) <= r.from
             /\ r.to < e.next_offset
             /\ e.strings[i] = DecodeUtf8Ignore(Slice(data, r.from, r.to))
      /\ (FormattedEnd(e) < Len(data) /\ At(data, FormattedEnd(e)) # 0)
           => Len(e.strings) = Cardinality(RunsOf(e))

\* C16 witness: a structure with two strings was printed, the structure
\* after it holds a zero-terminated run of its own, and the walk ended
C16_Witness ==
  /\ pc = "done"
  /\ Len(out) >= 2
  /\ Len(out[1].strings) = 2
  /\ Cardinality(RunsOf(out[1])) = 2
  /\ \E p \in out[1].next_offset..(Len(data) - 2) :
       At(data, p) # 0 /\ At(data, p + 1) = 0

(***************************************************************************)
(* get_smbios_strings and get_string_by_index on a string area laid out    *)
(* after one structure: the strings of the area are read as cmd_smbios     *)
(* reads them, and one of them is looked up as a decoder looks it up.      *)
(***************************************************************************)
\* most strings laid out in one string area
MaxStrings == 3

RECURSIVE EncodeUtf8(_)
\* str.encode('utf-8') of code points below 0x800: one byte below 0x80, two
\* bytes from there on
EncodeUtf8(s) ==
  IF s = <<>> THEN <<>>
  ELSE LET cp == Head(s) IN
    (IF cp < 128 THEN <<cp>> ELSE <<192 + (cp \div 64), 128 + (cp % 64)>>)
      \o EncodeUtf8(Tail(s))

\* the texts laid out: "A", "BC", "é", "Dé"
PoolTexts == {<<65>>, <<66, 67>>, <<233>>, <<68, 233>>}

\* every sequence of at most MaxStrings texts
LaidOutPools == UNION {[1..n -> PoolTexts] : n \in 0..MaxStrings}

RECURSIVE LayOutStrings(_)
\* s1 0 s2 0 ... sn 0
LayOutStrings(strs) ==
  IF strs = <<>> THEN <<>>
  ELSE EncodeUtf8(Head(strs)) \o <<0>> \o LayOutStrings(Tail(strs))

\* the string area of n strings: s1 0 ... sn 0 and one more zero byte; two
\* zero bytes for n = 0
LayOut(strs) ==
  IF strs = <<>> THEN <<0, 0>> ELSE LayOutStrings(strs) \o <<0>>

\* string areas that begin with a zero byte and are not two zero bytes
ZeroLedAreas == {<<0>>, <<0, 65>>, <<0, 65, 0>>, <<0, 65, 0, 0>>, <<0, 65, 0, 66, 0, 0>>}

\* the declared lengths of the structure in front of the string area
PoolRecordLengths == {4, 8}

\* the buffers, each with the texts laid out in it: a structure of type 9,
\* its string area, and nothing or a structure after it
PoolCases ==
  {[data |-> Wrapped(Record(9, len, <<>>) \o LayOut(strs) \o trailer), laid |-> strs] :
     len \in PoolRecordLengths, strs \in LaidOutPools, trailer \in TemplateTrailers}
  \cup
  {[data |-> Wrapped(Record(9, len, <<>>) \o area \o trailer), laid |-> <<>>] :
     len \in PoolRecordLengths, area \in ZeroLedAreas, trailer \in TemplateTrailers}

InitPool ==
  /\ \E c \in PoolCases : data = c.data /\ strings = c.laid
  /\ index \in 0..(MaxStrings + 1)
  /\ pc = "start"
  /\ current_off = RawHeaderSize
  /\ structure_count = 0
  /\ out = <<>>
  /\ result = <<>>

\* the strings of the structure at current_off as cmd_smbios gets them, and
\* the lookup of string number index in them
ReadPool ==
  /\ pc = "start"
  /\ LET header == parse_smbios_structure(data, current_off).header[1]
         lst == get_smbios_strings(data, current_off, header.length)
     IN result' = <<[pool |-> lst, resolved |-> get_string_by_index(lst, index)]>>
  /\ pc' = "done"
  /\ UNCHANGED <<data, current_off, structure_count, out, strings, index>>

NextPool == ReadPool

SpecPool == InitPool /\ [][NextPool]_vars

\* the bytes of the buffer from the formatted end of the structure at
\* current_off
AreaBytes == Slice(data, current_off + At(data, current_off + 1), Len(data))

ZeroLedAreaRead ==
  /\ pc = "done"
  /\ Len(AreaBytes) >= 3
  /\ AreaBytes[1] = 0 /\ AreaBytes[2] # 0 /\ AreaBytes[3] = 0
  /\ result[1].pool = <<>>

====
